---- MODULE Spec2Model ----
(***************************************************************************)
(* Model of server.py: the markup sanitizer clean_ai_response and the      *)
(* /chat request handler with its process-wide session store.              *)
(*                                                                         *)
(* A text is a sequence of characters; a character is a one-character      *)
(* string.  Four characters of the sanitizer's patterns cannot be written  *)
(* in a TLA+ string and are written by their code points: "U+0060" (grave  *)
(* accent, the inline-code mark), "U+2022" (bullet), "U+2500" (box drawing *)
(* light horizontal) and "U+2550" (box drawing double horizontal).         *)
(***************************************************************************)
EXTENDS Integers, Sequences, FiniteSets, TLC

\* ------------------------------------------------------------------------
\* Characters and character classes of the regular expressions
\* ------------------------------------------------------------------------

NL == "\n"

\* \s of Python's re on the characters of the model
Space == {" ", "\t", "\n"}

\* [ \t]
Blank == {" ", "\t"}

\* \d
Digit == {"0", "1", "2", "3", "4", "5", "6", "7", "8", "9"}

\* [-*<U+2022>]
BulletChars == {"-", "*", "U+2022"}

\* ------------------------------------------------------------------------
\* Helpers of the regular-expression engine (leftmost match, scan left to
\* right, resume after the match, greedy and lazy quantifiers)
\* ------------------------------------------------------------------------

\* text has the literal d at position i
StartsWith(t, i, d) ==
    /\ i + Len(d) - 1 <= Len(t)
    /\ SubSeq(t, i, i + Len(d) - 1) = d

\* length of the longest run of characters of class S starting at i, as a
\* greedy repetition takes it
RECURSIVE RunLen(_, _, _)
RunLen(t, i, S) ==
    IF i <= Len(t) /\ t[i] \in S THEN 1 + RunLen(t, i + 1, S) ELSE 0

\* ^ under re.MULTILINE: the start of the text or just after a newline
AtLineStart(t, i) == i = 1 \/ t[i - 1] = NL

\* (.*?)d : the first position j >= from where the closing d starts, with no
\* newline in between ('.' does not match a newline); 0 when there is none
RECURSIVE FindClose(_, _, _)
FindClose(t, d, j) ==
    IF j + Len(d) - 1 > Len(t) THEN 0
    ELSE IF StartsWith(t, j, d) THEN j
    ELSE IF t[j] = NL THEN 0
    ELSE FindClose(t, d, j + 1)

\* re.sub(d(.*?)d, \1, t) from position i on
RECURSIVE SubPair(_, _, _)
SubPair(t, d, i) ==
    IF i > Len(t) THEN <<>>
    ELSE IF StartsWith(t, i, d) /\ FindClose(t, d, i + Len(d)) # 0
         THEN LET j == FindClose(t, d, i + Len(d))
              IN  SubSeq(t, i + Len(d), j - 1) \o SubPair(t, d, j + Len(d))
         ELSE <<t[i]>> \o SubPair(t, d, i + 1)

\* length of the match of the named pattern at position i, 0 when it does
\* not match there
MatchAt(p, t, i) ==
    CASE p = "heading" ->      \* ^#+\s+
           LET h == RunLen(t, i, {"#"})
               w == RunLen(t, i + h, Space)
           IN  IF AtLineStart(t, i) /\ h >= 1 /\ w >= 1 THEN h + w ELSE 0
      [] p = "quote" ->        \* ^>\s+
           LET w == RunLen(t, i + 1, Space)
           IN  IF AtLineStart(t, i) /\ t[i] = ">" /\ w >= 1 THEN 1 + w ELSE 0
      [] p = "bullet" ->       \* ^[\s]*[-*<U+2022>]\s+
           LET s == RunLen(t, i, Space)
               b == RunLen(t, i + s, BulletChars)
               w == RunLen(t, i + s + 1, Space)
           IN  IF AtLineStart(t, i) /\ b >= 1 /\ w >= 1 THEN s + 1 + w ELSE 0
      [] p = "number" ->       \* ^[\s]*\d+\.\s+
           LET s == RunLen(t, i, Space)
               d == RunLen(t, i + s, Digit)
               dot == RunLen(t, i + s + d, {"."})
               w == RunLen(t, i + s + d + 1, Space)
           IN  IF AtLineStart(t, i) /\ d >= 1 /\ dot >= 1 /\ w >= 1
               THEN s + d + 1 + w ELSE 0
      [] p = "light3" ->       \* <U+2500>{3,}
           LET n == RunLen(t, i, {"U+2500"}) IN IF n >= 3 THEN n ELSE 0
      [] p = "double3" ->      \* <U+2550>{3,}
           LET n == RunLen(t, i, {"U+2550"}) IN IF n >= 3 THEN n ELSE 0
      [] p = "light2" ->       \* <U+2500>{2,}
           LET n == RunLen(t, i, {"U+2500"}) IN IF n >= 2 THEN n ELSE 0

\* re.sub(p, '', t) from position i on
RECURSIVE SubRemove(_, _, _)
SubRemove(p, t, i) ==
    IF i > Len(t) THEN <<>>
    ELSE IF MatchAt(p, t, i) > 0 THEN SubRemove(p, t, i + MatchAt(p, t, i))
         ELSE <<t[i]>> \o SubRemove(p, t, i + 1)

\* number of newlines in t[i .. i+n-1]
RECURSIVE CountNL(_, _, _)
CountNL(t, i, n) ==
    IF n = 0 THEN 0
    ELSE (IF t[i] = NL THEN 1 ELSE 0) + CountNL(t, i + 1, n - 1)

\* position of the last newline in t[i .. i+n-1] (there is one)
RECURSIVE LastNL(_, _, _)
LastNL(t, i, n) ==
    IF t[i + n - 1] = NL THEN i + n - 1 ELSE LastNL(t, i, n - 1)

\* re.sub(r'\n\s*\n\s*\n', '\n\n', t) from position i on: a match starts at a
\* newline and, both \s* being greedy, ends at the last newline of the run
\* of whitespace, which must hold three newlines or more
RECURSIVE SubBlankLines(_, _)
SubBlankLines(t, i) ==
    IF i > Len(t) THEN <<>>
    ELSE LET w == RunLen(t, i, Space)
         IN  IF t[i] = NL /\ CountNL(t, i, w) >= 3
             THEN <<NL, NL>> \o SubBlankLines(t, LastNL(t, i, w) + 1)
             ELSE <<t[i]>> \o SubBlankLines(t, i + 1)

\* re.sub(r'[ \t]+', ' ', t) from position i on
RECURSIVE SubBlanks(_, _)
SubBlanks(t, i) ==
    IF i > Len(t) THEN <<>>
    ELSE IF t[i] \in Blank
         THEN <<" ">> \o SubBlanks(t, i + RunLen(t, i, Blank))
         ELSE <<t[i]>> \o SubBlanks(t, i + 1)

\* length of the run of whitespace that ends the text
RECURSIVE TrailLen(_)
TrailLen(t) ==
    IF Len(t) > 0 /\ t[Len(t)] \in Space
    THEN 1 + TrailLen(SubSeq(t, 1, Len(t) - 1)) ELSE 0

\* str.strip()
strip(t) ==
    LET a == RunLen(t, 1, Space)
    IN  IF a = Len(t) THEN <<>>
        ELSE SubSeq(t, a + 1, Len(t) - TrailLen(t))

\* ------------------------------------------------------------------------
\* clean_ai_response: the steps in the order of the source
\* ------------------------------------------------------------------------

StripBold(t) == SubPair(t, <<"*", "*">>, 1)
StripItalic(t) == SubPair(t, <<"*">>, 1)
StripUnderscore(t) == SubPair(t, <<"_">>, 1)
StripCode(t) == SubPair(t, <<"U+0060">>, 1)
StripStrike(t) == SubPair(t, <<"~", "~">>, 1)
StripHeadings(t) == SubRemove("heading", t, 1)
StripQuotes(t) == SubRemove("quote", t, 1)
StripBullets(t) == SubRemove("bullet", t, 1)
StripNumbers(t) == SubRemove("number", t, 1)
StripRules(t) ==
    SubRemove("light2", SubRemove("double3", SubRemove("light3", t, 1), 1), 1)
CollapseBlankLines(t) == SubBlankLines(t, 1)
CollapseBlanks(t) == SubBlanks(t, 1)

\* Each assignment text = re.sub(..., text) works on the string the one
\* before it returned: Then(t, F) is F applied to the value of t.
clean_ai_response(text) ==
    LET Then(t, F(_)) == CHOOSE result \in {F(x) : x \in {t}} : TRUE
    IN  IF text = <<>> THEN <<>>
        ELSE Then(Then(Then(Then(Then(Then(Then(Then(Then(Then(Then(Then(
             Then(text, StripBold), StripItalic), StripUnderscore),
             StripCode), StripStrike), StripHeadings), StripQuotes),
             StripBullets), StripNumbers), StripRules), CollapseBlankLines),
             CollapseBlanks), strip)

\* ------------------------------------------------------------------------
\* Constants of the program and the inputs of the model
\* ------------------------------------------------------------------------

\* the fixed instruction text, a text of one opaque character
SYSTEM_PROMPT == <<"SYSTEM_PROMPT">>

\* the fixed "detail" string of the 500 response (in Russian in the source)
DETAIL == "check the API key and the Yandex Cloud settings"

\* number of /chat requests of a run
MaxReqs == 2

Reqs == 1 .. MaxReqs

\* session ids a client makes up
ClientIds == {"s1"}

\* values str(uuid.uuid4()) may return: one for each request of the run
UuidNames == <<"uuid-a", "uuid-b", "uuid-c", "uuid-d">>

UuidPool == {UuidNames[i] : i \in Reqs}

\* texts a client sends as "message"
MessageInputs ==
    {<<>>, <<" ", "\n">>, <<"h", "i">>, <<" ", "y", "o", "\n">>}

\* texts the provider returns as output_text
ProviderTexts ==
    {<<>>, <<" ", "\n">>, <<"#", " ", "*", "k", "*", " ">>}

\* str(e) of the exceptions the provider call raises
ProviderErrors == {"Connection error."}

\* str(e) of the exception lines 100-101 raise on a body that is no JSON
\* object with a string "message"
BodyError == "invalid request body"

\* ------------------------------------------------------------------------
\* State
\* ------------------------------------------------------------------------

VARIABLES
    sessions,   \* the session store: session id -> history
    pc,         \* per request: "idle", "received" (body read), "responded"
    req,        \* per request: the body the client sent
    resp,       \* per request: the response sent
    session_id, \* per request: the handler's session_id (history variable)
    provider,   \* per request: what the provider call did (history variable)
    appended,   \* per request: positions it appended at (history variable)
    order,      \* requests in the order their handlers ran (history variable)
    lines,      \* sanitizer check: the lines the input is made of, if any
    text,       \* sanitizer check: the input text
    out,        \* sanitizer check: clean_ai_response(text)
    again,      \* sanitizer check: clean_ai_response(out)
    phase       \* sanitizer check: "off", "input", "cleaned", "recleaned"

chatVars == <<sessions, pc, req, resp, session_id, provider, appended, order>>
cleanVars == <<lines, text, out, again, phase>>
vars == <<sessions, pc, req, resp, session_id, provider, appended, order,
          lines, text, out, again, phase>>

\* ------------------------------------------------------------------------
\* The pieces of the handler
\* ------------------------------------------------------------------------

EmptyDict == [k \in {} |-> <<>>]

\* dict.get(key, default)
get(data, key, default) ==
    IF key \in DOMAIN data THEN data[key] ELSE default

\* mutant of message_of: the message is not stripped
message_of_unstripped(data) == get(data, "message", <<>>)

\* message = data.get("message", "").strip()
message_of(data) == strip(get(data, "message", <<>>))

\* mutant of session_id_of: every request gets a generated session id
session_id_always_new(data, uuid) == uuid

\* session_id = data.get("session_id", str(uuid.uuid4()))
session_id_of(data, uuid) == get(data, "session_id", uuid)

Message(role, content) == [role |-> role, content |-> content]

\* mutant of get_or_create: the system message is added on every request
get_or_create_always(s, sid) ==
    IF sid \in DOMAIN s
    THEN [s EXCEPT ![sid] = Append(@, Message("system", SYSTEM_PROMPT))]
    ELSE s @@ (sid :> <<Message("system", SYSTEM_PROMPT)>>)

\* mutant of get_or_create: the history is started anew on every request
get_or_create_reset(s, sid) ==
    [x \in DOMAIN s \cup {sid} |->
        IF x = sid THEN <<Message("system", SYSTEM_PROMPT)>> ELSE s[x]]

\* if session_id not in sessions: sessions[session_id] = [system message]
get_or_create(s, sid) ==
    IF sid \in DOMAIN s THEN s
    ELSE s @@ (sid :> <<Message("system", SYSTEM_PROMPT)>>)

\* mutant of append: insert(1, ...), the message goes right after the
\* system message
append_front(s, sid, role, content) ==
    [s EXCEPT ![sid] = <<Head(@), Message(role, content)>> \o Tail(@)]

\* mutant of append: the user message is not stored
append_replies_only(s, sid, role, content) ==
    IF role = "user" THEN s
    ELSE [s EXCEPT ![sid] = Append(@, Message(role, content))]

\* mutant of append: insert(-1, ...), the message goes before the last one
append_before_last(s, sid, role, content) ==
    [s EXCEPT ![sid] = SubSeq(@, 1, Len(@) - 1)
                       \o <<Message(role, content), @[Len(@)]>>]

\* mutant of append: a message with no content is not stored
append_nonempty(s, sid, role, content) ==
    IF content = <<>> THEN s
    ELSE [s EXCEPT ![sid] = Append(@, Message(role, content))]

\* sessions[session_id].append({"role": role, "content": content})
append(s, sid, role, content) ==
    [s EXCEPT ![sid] = Append(@, Message(role, content))]

\* reply = response.output_text.strip()
reply_of(output_text) == strip(output_text)

NoResponse == [status |-> 0]

\* the handler's session_id before line 102 has run
NoSession == "-"

\* return {"reply": cleaned_reply, "session_id": session_id}
Response200(cleaned_reply, sid) ==
    [status |-> 200, reply |-> cleaned_reply, session_id |-> sid]

\* JSONResponse(status_code=400, content={"error": "empty message"})
Response400 == [status |-> 400, error |-> "empty message"]

\* JSONResponse(status_code=500, content={"error": str(e), "detail": ...})
Response500(e) == [status |-> 500, error |-> e, detail |-> DETAIL]

NoCall == [kind |-> "none", output_text |-> <<>>]
Raised == [kind |-> "raise", output_text |-> <<>>]
Returned(t) == [kind |-> "text", output_text |-> t]

\* ------------------------------------------------------------------------
\* Requests
\* ------------------------------------------------------------------------

\* one key of a JSON object, present or not
Field(key, present, value) ==
    IF present THEN (key :> value) ELSE EmptyDict

\* session ids a client can send: its own, or one a response gave it
KnownIds(s) == ClientIds \cup (DOMAIN s \cap UuidPool)

\* the JSON objects a client sends
Dicts(s) ==
    {Field("message", hm, m) @@ Field("session_id", hs, sid) :
        hm \in BOOLEAN, m \in MessageInputs,
        hs \in BOOLEAN, sid \in KnownIds(s)}

NoBody == [valid |-> FALSE, data |-> EmptyDict]

Bodies(s) == {NoBody} \cup {[valid |-> TRUE, data |-> d] : d \in Dicts(s)}

\* POST /chat arrives and its body is read: data = await request.json().
\* This await is the only point where the handler gives up the event loop.
\* Requests are numbered in the order they arrive.
Receive(r) ==
    /\ pc[r] = "idle"
    /\ \A q \in Reqs : q < r => pc[q] # "idle"
    /\ \E b \in Bodies(sessions) : req' = [req EXCEPT ![r] = b]
    /\ pc' = [pc EXCEPT ![r] = "received"]
    /\ UNCHANGED <<sessions, resp, session_id, provider, appended, order>>
    /\ UNCHANGED cleanVars

\* the handler has run for r: its response and the history variables
Respond(r, response, sid, call, positions) ==
    /\ pc' = [pc EXCEPT ![r] = "responded"]
    /\ resp' = [resp EXCEPT ![r] = response]
    /\ session_id' = [session_id EXCEPT ![r] = sid]
    /\ provider' = [provider EXCEPT ![r] = call]
    /\ appended' = [appended EXCEPT ![r] = positions]
    /\ order' = Append(order, r)
    /\ UNCHANGED req
    /\ UNCHANGED cleanVars

\* lines 100-101 raise: the body is no JSON object with a string message
ChatBadBody(r) ==
    /\ ~req[r].valid
    /\ sessions' = sessions
    /\ Respond(r, Response500(BodyError), NoSession, NoCall, <<>>)

\* lines 104-105: the message is empty after strip(). The session_id of
\* line 102 is dropped with the return; a generated one is not recorded.
ChatEmpty(r) ==
    /\ req[r].valid
    /\ message_of(req[r].data) = <<>>
    /\ sessions' = sessions
    /\ Respond(r, Response400, session_id_of(req[r].data, NoSession),
                   NoCall, <<>>)

\* lines 107-121 and 133-141: the provider call raises e
ChatProviderRaises(r, uuid, e) ==
    LET message == message_of(req[r].data)
        sid == session_id_of(req[r].data, uuid)
        s1 == append(get_or_create(sessions, sid), sid, "user", message)
    IN  /\ req[r].valid
        /\ message # <<>>
        /\ sessions' = s1
        /\ Respond(r, Response500(e), sid, Raised, <<Len(s1[sid])>>)

\* lines 107-131: the provider call returns output_text
ChatProviderReturns(r, uuid, output_text) ==
    LET message == message_of(req[r].data)
        sid == session_id_of(req[r].data, uuid)
        s1 == append(get_or_create(sessions, sid), sid, "user", message)
        reply == reply_of(output_text)
        cleaned_reply == clean_ai_response(reply)
        s2 == append(s1, sid, "assistant", cleaned_reply)
    IN  /\ req[r].valid
        /\ message # <<>>
        /\ sessions' = s2
        /\ Respond(r, Response200(cleaned_reply, sid), sid,
                   Returned(output_text),
                   <<Len(s1[sid]), Len(s1[sid]) + 1>>)

\* uuid.uuid4() returns a value that names no session
FreshUuids(s) == UuidPool \ DOMAIN s

\* The handler from the return of request.json() to its return statement.
\* chat is a coroutine and client.responses.create is a call of the blocking
\* client, so no other handler runs in between: one step.
chat(r) ==
    /\ pc[r] = "received"
    /\ \/ ChatBadBody(r)
       \/ ChatEmpty(r)
       \/ \E uuid \in FreshUuids(sessions), e \in ProviderErrors :
             ChatProviderRaises(r, uuid, e)
       \/ \E uuid \in FreshUuids(sessions), t \in ProviderTexts :
             ChatProviderReturns(r, uuid, t)

\* ------------------------------------------------------------------------
\* The server
\* ------------------------------------------------------------------------

Init ==
    /\ sessions = EmptyDict
    /\ pc = [r \in Reqs |-> "idle"]
    /\ req = [r \in Reqs |-> NoBody]
    /\ resp = [r \in Reqs |-> NoResponse]
    /\ session_id = [r \in Reqs |-> NoSession]
    /\ provider = [r \in Reqs |-> NoCall]
    /\ appended = [r \in Reqs |-> <<>>]
    /\ order = <<>>
    /\ lines = <<>>
    /\ text = <<>>
    /\ out = <<>>
    /\ again = <<>>
    /\ phase = "off"

Next == \E r \in Reqs : Receive(r) \/ chat(r)

Spec == Init /\ [][Next]_vars

\* ------------------------------------------------------------------------
\* Claims about the /chat handler and the session store
\* ------------------------------------------------------------------------

Responded(r) == pc[r] = "responded"

\* the step in which the handler of r runs
Handled(r) == pc[r] = "received" /\ pc'[r] = "responded"

\* the message of a JSON object is missing, empty or only white space
BlankMessage(data) ==
    \/ "message" \notin DOMAIN data
    \/ \A i \in 1 .. Len(data["message"]) : data["message"][i] \in Space

\* r carries a message that is not empty after trimming
HasMessage(r) == req[r].valid /\ ~BlankMessage(req[r].data)

SystemMessage == Message("system", SYSTEM_PROMPT)

\* the history of session sid before a step, the one a new session starts
\* with when there is none
HistoryBefore(sid) ==
    IF sid \in DOMAIN sessions THEN sessions[sid] ELSE <<SystemMessage>>

UserMessage(r) == Message("user", message_of(req[r].data))

\* the assistant message of a request whose provider call returned a text
AssistantMessage(r) ==
    Message("assistant",
            clean_ai_response(reply_of(provider[r].output_text)))

\* C1: every session of the store has a history whose first message is the
\* system message with the fixed instruction text, and no other message of
\* the history has role system.
C1_OneSystemMessageFirst ==
    \A sid \in DOMAIN sessions :
        LET h == sessions[sid]
        IN  /\ Len(h) >= 1
            /\ h[1] = SystemMessage
            /\ \A i \in 2 .. Len(h) : h[i].role # "system"

\* C1 witness: a session on which a request failed and another succeeded
C1_Witness ==
    \E sid \in DOMAIN sessions :
        /\ Len(sessions[sid]) >= 4
        /\ \E q, r \in Reqs :
              /\ q # r
              /\ Responded(q) /\ Responded(r)
              /\ session_id[q] = sid
              /\ resp[q].status = 500
              /\ session_id[r] = sid
              /\ resp[r].status = 200

\* the requests with a message handled on session sid, in the order handled
RECURSIVE TurnsOn(_, _)
TurnsOn(sid, ord) ==
    IF ord = <<>> THEN <<>>
    ELSE IF HasMessage(Head(ord)) /\ session_id[Head(ord)] = sid
         THEN <<Head(ord)>> \o TurnsOn(sid, Tail(ord))
         ELSE TurnsOn(sid, Tail(ord))

\* what a handled request adds to its history
Turn(r) ==
    IF provider[r].kind = "text"
    THEN <<UserMessage(r), AssistantMessage(r)>>
    ELSE <<UserMessage(r)>>

\* C2: two requests handled one after the other on the same session with
\* different non-empty messages each add one user message and, when the
\* provider call returned, one assistant message right after it, the first
\* request's before the second's: after two successes the history is
\* system, user1, assistant1, user2, assistant2.
C2_SequentialTurnsInOrder ==
    \A sid \in DOMAIN sessions :
        LET t == TurnsOn(sid, order)
        IN  (/\ Len(t) = 2
             /\ UserMessage(t[1]) # UserMessage(t[2]))
            => sessions[sid] = <<SystemMessage>> \o Turn(t[1]) \o Turn(t[2])

\* C2 witness: two successful requests with different messages on a session
C2_Witness ==
    \E sid \in DOMAIN sessions :
        LET t == TurnsOn(sid, order)
        IN  /\ Len(t) = 2
            /\ UserMessage(t[1]) # UserMessage(t[2])
            /\ resp[t[1]].status = 200
            /\ resp[t[2]].status = 200
            /\ Len(sessions[sid]) = 5

\* C3: a request whose message is missing, empty or only white space is
\* answered 400 with the error "empty message" and the session store is left
\* as it was, whatever its session id.
C3_BlankMessageRejected ==
    [][\A r \in Reqs :
          (Handled(r) /\ req[r].valid /\ BlankMessage(req[r].data))
          => /\ resp'[r] = [status |-> 400, error |-> "empty message"]
             /\ sessions' = sessions]_vars

\* C3 witness: a message of white space only, rejected, with a session id
\* that names no session and with none
C3_Witness ==
    \E q, r \in Reqs :
        /\ Responded(q) /\ Responded(r)
        /\ req[q].valid /\ req[r].valid
        /\ "message" \in DOMAIN req[q].data
        /\ req[q].data["message"] = <<" ", "\n">>
        /\ "session_id" \in DOMAIN req[q].data
        /\ req[q].data["session_id"] \notin DOMAIN sessions
        /\ resp[q].status = 400
        /\ BlankMessage(req[r].data)
        /\ "session_id" \notin DOMAIN req[r].data
        /\ resp[r].status = 400

\* r comes before q in the order the handlers ran
Before(r, q) ==
    \E i, j \in 1 .. Len(order) : i < j /\ order[i] = r /\ order[j] = q

\* the step handles r the way the handler is written: the response and the
\* history its body and its provider call ask for
ProcessedNormally(r) ==
    LET sid == session_id'[r]
    IN  /\ ~req[r].valid =>
              /\ resp'[r].status = 500
              /\ sessions' = sessions
        /\ (req[r].valid /\ BlankMessage(req[r].data)) =>
              /\ resp'[r].status = 400
              /\ sessions' = sessions
        /\ HasMessage(r) =>
              /\ provider'[r].kind \in {"raise", "text"}
              /\ sid \in DOMAIN sessions'
        /\ (HasMessage(r) /\ provider'[r].kind = "raise") =>
              /\ resp'[r].status = 500
              /\ sessions'[sid] = HistoryBefore(sid) \o <<UserMessage(r)>>
        /\ (HasMessage(r) /\ provider'[r].kind = "text") =>
              /\ resp'[r].status = 200
              /\ resp'[r].reply =
                    clean_ai_response(reply_of(provider'[r].output_text))
              /\ sessions'[sid] =
                    HistoryBefore(sid)
                    \o <<UserMessage(r), Message("assistant", resp'[r].reply)>>

\* C4: when the provider call of a request with a message fails, the answer
\* is 500 with an error text and the fixed detail string, the session is left
\* with the user message of the request as its last entry and no assistant
\* message for it, and a request handled later, on the same or another
\* session, is processed normally.
C4_ProviderFailure ==
    [][\A r \in Reqs :
          Handled(r) =>
            /\ provider'[r].kind = "raise" =>
                  LET sid == session_id'[r]
                  IN  /\ HasMessage(r)
                      /\ resp'[r].status = 500
                      /\ resp'[r].error \in ProviderErrors
                      /\ resp'[r].detail = DETAIL
                      /\ sid \in DOMAIN sessions'
                      /\ sessions'[sid] =
                            HistoryBefore(sid) \o <<UserMessage(r)>>
            /\ (\E q \in Reqs : Responded(q) /\ provider[q].kind = "raise")
                  => ProcessedNormally(r)]_vars

\* C4 witness: a failed request, then successful ones on its session and on
\* another
C4_Witness ==
    \E q, r \in Reqs :
        /\ Before(q, r)
        /\ provider[q].kind = "raise"
        /\ resp[q].status = 500
        /\ resp[r].status = 200
        /\ session_id[r] = session_id[q]
        /\ sessions[session_id[q]] =
              <<SystemMessage, UserMessage(q), UserMessage(r),
                AssistantMessage(r)>>

\* the session id asked for: the one sent, else a generated one that names
\* no session
SessionIdAsked(r, sid) ==
    IF "session_id" \in DOMAIN req[r].data
    THEN sid = req[r].data["session_id"]
    ELSE sid \in UuidPool /\ sid \notin DOMAIN sessions

\* C5 as stated: every request with a message is answered 200 with a reply
\* and the session id sent, or a generated one.
C5_AlwaysOk ==
    \A r \in Reqs :
        (Responded(r) /\ HasMessage(r)) =>
            /\ resp[r].status = 200
            /\ "session_id" \in DOMAIN req[r].data
                  => resp[r].session_id = req[r].data["session_id"]

\* C5 amended: a request with a message whose provider call returns a text
\* is answered 200 with a reply, a text that may be empty, and the session id
\* sent, or a generated one that names no session when none was sent; when
\* the provider call raises, the answer is 500.
C5_OkWhenProviderReturns ==
    [][\A r \in Reqs :
          (Handled(r) /\ HasMessage(r)) =>
            /\ provider'[r].kind = "text" =>
                  /\ resp'[r].status = 200
                  /\ DOMAIN resp'[r] = {"status", "reply", "session_id"}
                  /\ resp'[r].reply \in Seq(STRING)
                  /\ SessionIdAsked(r, resp'[r].session_id)
            /\ provider'[r].kind # "text" => resp'[r].status = 500]_vars

\* C5 witness: a 200 answer to a request that sent a session id and one to a
\* request that sent none
C5_Witness ==
    \E q, r \in Reqs :
        /\ Responded(q) /\ Responded(r)
        /\ resp[q].status = 200 /\ resp[r].status = 200
        /\ "session_id" \in DOMAIN req[q].data
        /\ "session_id" \notin DOMAIN req[r].data
        /\ resp[r].session_id \in UuidPool

\* q arrived and was handled while r, which arrived before it, was waiting:
\* the two were in flight at the same time
Overlapped(r, q) == r < q /\ Before(q, r)

\* r was answered 200 and, in the history of sid, the user message of r is
\* not followed at once by the assistant message that carries the reply
\* returned to r
SplitTurn(sid, r) ==
    /\ resp[r].status = 200
    /\ \E k \in 1 .. Len(sessions[sid]) :
          /\ appended[r] # <<>>
          /\ appended[r][1] = k
          /\ ~(/\ k + 1 <= Len(sessions[sid])
               /\ sessions[sid][k + 1] = Message("assistant", resp[r].reply)
               /\ appended[r] = <<k, k + 1>>)

\* r and q have read their bodies and neither has been handled: the two are
\* in flight at the same time, with messages for the same session id
InFlightTogether(r, q) ==
    /\ r # q
    /\ pc[r] = "received" /\ pc[q] = "received"
    /\ HasMessage(r) /\ HasMessage(q)
    /\ "session_id" \in DOMAIN req[r].data
    /\ "session_id" \in DOMAIN req[q].data
    /\ req[r].data.session_id = req[q].data.session_id

\* both r and q were answered 200 on one session and the turn of one of them
\* is split by a message of the other
Interleaved(r, q) ==
    /\ Responded(r) /\ Responded(q)
    /\ resp[r].status = 200 /\ resp[q].status = 200
    /\ session_id[r] = session_id[q]
    /\ SplitTurn(session_id[r], r) \/ SplitTurn(session_id[q], q)

\* some step of the server, from the current state, leads to a state where
\* the messages of r and q are interleaved; then some run of at most two,
\* three, four steps
InterleavedAfter1(r, q) ==
    Interleaved(r, q) \/ ENABLED (Next /\ Interleaved(r, q)')

InterleavedAfter2(r, q) ==
    Interleaved(r, q) \/ ENABLED (Next /\ InterleavedAfter1(r, q)')

InterleavedAfter3(r, q) ==
    Interleaved(r, q) \/ ENABLED (Next /\ InterleavedAfter2(r, q)')

InterleavedAfter4(r, q) ==
    Interleaved(r, q) \/ ENABLED (Next /\ InterleavedAfter3(r, q)')

\* C6 as stated: with two requests in flight at the same time on the same
\* session id, a history in which the user message of one of them is not
\* followed at once by that request's assistant reply is reachable.  (Once
\* two requests have been received a run has at most 2 * MaxReqs - 2 further
\* steps, so four steps leave no run out for MaxReqs up to 3.)
C6_Interleaved ==
    \A r, q \in Reqs :
        InFlightTogether(r, q) => InterleavedAfter4(r, q)

\* C6 amended: with two requests in flight at the same time on one session,
\* either handler may run first, and each runs from the end of the body read
\* to its response with no other handler in between: in the history the user
\* message of a request is followed at once by that request's assistant
\* message when its provider call returned, and by no message of it
\* otherwise; the messages of two requests are never interleaved.
C6_TurnsNotInterleaved ==
    \A r \in Reqs :
        (Responded(r) /\ HasMessage(r)) =>
            LET h == sessions[session_id[r]]
                k == appended[r][1]
            IN  /\ k <= Len(h)
                /\ h[k] = UserMessage(r)
                /\ provider[r].kind = "text" =>
                      /\ appended[r] = <<k, k + 1>>
                      /\ k + 1 <= Len(h)
                      /\ h[k + 1] = AssistantMessage(r)
                /\ provider[r].kind # "text" => appended[r] = <<k>>
                /\ \A q \in Reqs \ {r} :
                      \A i \in 1 .. Len(appended[q]) :
                          session_id[q] = session_id[r] =>
                              \/ appended[q][i] < k
                              \/ appended[q][i] > appended[r][Len(appended[r])]

\* C6 witness: two requests in flight at the same time on one session, the
\* later one handled first, both answered 200
C6_Witness ==
    \E r, q \in Reqs :
        /\ Overlapped(r, q)
        /\ session_id[r] = session_id[q]
        /\ resp[r].status = 200
        /\ resp[q].status = 200
        /\ UserMessage(r) # UserMessage(q)
        /\ sessions[session_id[r]] =
              <<SystemMessage, UserMessage(q), AssistantMessage(q),
                UserMessage(r), AssistantMessage(r)>>

\* a text that is empty or only white space
BlankText(t) == \A i \in 1 .. Len(t) : t[i] \in Space

\* C7 as stated: when the provider returns a text that is empty after
\* trimming, the answer is the 500 error response and no assistant message is
\* added.
C7_EmptyReplyFails ==
    \A r \in Reqs :
        (/\ Responded(r)
         /\ provider[r].kind = "text"
         /\ BlankText(provider[r].output_text))
        => /\ resp[r].status = 500
           /\ Len(appended[r]) = 1

\* C7 amended: when the provider returns a text that is empty after
\* trimming, the answer is 200 with an empty reply and an assistant message
\* with empty content is added right after the user message.
C7_EmptyReplyAccepted ==
    [][\A r \in Reqs :
          (/\ Handled(r)
           /\ provider'[r].kind = "text"
           /\ BlankText(provider'[r].output_text))
          => /\ resp'[r] = [status |-> 200, reply |-> <<>>,
                            session_id |-> session_id'[r]]
             /\ sessions'[session_id'[r]] =
                   HistoryBefore(session_id'[r])
                   \o <<UserMessage(r), Message("assistant", <<>>)>>]_vars

\* C7 witness: 200 answers to an empty provider text and to one of white
\* space only
C7_Witness ==
    \E q, r \in Reqs :
        /\ Responded(q) /\ Responded(r)
        /\ provider[q] = Returned(<<>>)
        /\ provider[r] = Returned(<<" ", "\n">>)
        /\ resp[q].status = 200 /\ resp[q].reply = <<>>
        /\ resp[r].status = 200 /\ resp[r].reply = <<>>

\* h is a prefix of g
IsPrefix(h, g) == Len(h) <= Len(g) /\ SubSeq(g, 1, Len(h)) = h

\* C10: the store is append-only and the sessions are isolated: over every
\* request, whatever its outcome, each session stays, its earlier history is
\* a prefix of its later one, and the history of every session other than
\* the request's own is unchanged.
C10_AppendOnlyIsolated ==
    [][/\ \A sid \in DOMAIN sessions :
             /\ sid \in DOMAIN sessions'
             /\ IsPrefix(sessions[sid], sessions'[sid])
       /\ \A r \in Reqs :
             Handled(r) =>
                /\ DOMAIN sessions' \subseteq DOMAIN sessions \cup {session_id'[r]}
                /\ \A sid \in DOMAIN sessions :
                      sid # session_id'[r] => sessions'[sid] = sessions[sid]]_vars

\* C10 witness: a request handled on one session after a request on
\* another, both sessions in the store
C10_Witness ==
    \E q, r \in Reqs :
        /\ Before(q, r)
        /\ resp[q].status = 200 /\ resp[r].status = 200
        /\ session_id[q] # session_id[r]
        /\ Len(sessions[session_id[q]]) = 3
        /\ Len(sessions[session_id[r]]) = 3

\* ------------------------------------------------------------------------
\* clean_ai_response on its own: the inputs of the check
\* ------------------------------------------------------------------------

\* longest input text drawn character by character
MaxLen == 4

\* the markup characters, a digit, the dot, white space and a letter
Alphabet ==
    {"*", "_", "U+0060", "~", "#", ">", "-", "1", ".", " ", "\n", "a"}

\* all texts of length n over the alphabet
Texts(n) == [1 .. n -> Alphabet]

ShortTexts == UNION {Texts(n) : n \in 0 .. MaxLen}

\* most lines of an input drawn line by line
MaxLines == 3

\* what a line starts with: nothing, a heading marker or a bullet marker
Markers == {<<>>, <<"#">>, <<"#", "#">>, <<"-">>, <<"*">>, <<"U+2022">>}

\* the text of a line after its marker
LineBodies ==
    {<<"H", "e", "a", "d", "i", "n", "g">>,
     <<"i", "t", "e", "m", " ", "o", "n", "e">>,
     <<"i", "t", "e", "m", " ", "t", "w", "o">>}

BlankLine == [marker |-> <<>>, body |-> <<>>]

LineInputs ==
    {BlankLine} \cup [marker : Markers, body : LineBodies]

\* the text of a line: its marker, one space, its body
LineText(l) ==
    IF l.marker = <<>> THEN l.body ELSE l.marker \o <<" ">> \o l.body

\* the lines joined by newlines
RECURSIVE JoinLines(_)
JoinLines(ls) ==
    IF Len(ls) = 0 THEN <<>>
    ELSE IF Len(ls) = 1 THEN LineText(ls[1])
    ELSE LineText(ls[1]) \o <<NL>> \o JoinLines(Tail(ls))

Documents == UNION {[1 .. n -> LineInputs] : n \in 1 .. MaxLines}

InitClean ==
    /\ sessions = EmptyDict
    /\ pc = [r \in Reqs |-> "idle"]
    /\ req = [r \in Reqs |-> NoBody]
    /\ resp = [r \in Reqs |-> NoResponse]
    /\ session_id = [r \in Reqs |-> NoSession]
    /\ provider = [r \in Reqs |-> NoCall]
    /\ appended = [r \in Reqs |-> <<>>]
    /\ order = <<>>
    /\ \/ lines = <<>> /\ text \in ShortTexts
       \/ lines \in Documents /\ text = JoinLines(lines)
    /\ out = <<>>
    /\ again = <<>>
    /\ phase = "input"

\* cleaned_reply = clean_ai_response(reply)
Clean ==
    /\ phase = "input"
    /\ out' = clean_ai_response(text)
    /\ phase' = "cleaned"
    /\ UNCHANGED <<lines, text, again>>
    /\ UNCHANGED chatVars

\* the result cleaned once more
CleanAgain ==
    /\ phase = "cleaned"
    /\ again' = clean_ai_response(out)
    /\ phase' = "recleaned"
    /\ UNCHANGED <<lines, text, out>>
    /\ UNCHANGED chatVars

NextClean == Clean \/ CleanAgain

SpecClean == InitClean /\ [][NextClean]_vars

\* ------------------------------------------------------------------------
\* Claims about clean_ai_response
\* ------------------------------------------------------------------------

\* C8: clean_ai_response is idempotent: cleaning the cleaned text once more
\* gives the cleaned text.
C8_Idempotent == phase = "recleaned" => again = out

\* a text made of lines: the first and the last line are not blank and no
\* two blank lines follow each other
Paragraphs(ls) ==
    /\ Len(ls) >= 1
    /\ ls[1] # BlankLine
    /\ ls[Len(ls)] # BlankLine
    /\ \A i \in 1 .. Len(ls) - 1 : ~(ls[i] = BlankLine /\ ls[i + 1] = BlankLine)

\* the lines without their markers, the line breaks as they were
RECURSIVE JoinBodies(_)
JoinBodies(ls) ==
    IF Len(ls) = 0 THEN <<>>
    ELSE IF Len(ls) = 1 THEN ls[1].body
    ELSE ls[1].body \o <<NL>> \o JoinBodies(Tail(ls))

\* C9: clean_ai_response removes the heading or bullet marker and the white
\* space after it from every line that starts with one and keeps the rest of
\* each line and the line breaks, a single blank line between two paragraphs
\* included.
C9_MarkersRemovedLinesKept ==
    (phase = "cleaned" /\ Paragraphs(lines)) => out = JoinBodies(lines)

====
